---- MODULE Spec2Model ----
(***************************************************************************)
(* Model of the silver-price aggregation endpoint (src/unnamed/part_000):  *)
(* its three adapters, their timeout, and the handler that joins them.     *)
(*                                                                         *)
(* A text is a sequence of one-character strings.  A JavaScript value is   *)
(* a record [t, m, d, s]: t is the type tag, and for a number m / 10^d is  *)
(* its decimal value (normalised: no trailing zero in the fraction), for   *)
(* an infinity m is its sign, for a boolean m is 0 or 1, and for a string  *)
(* s is its text.  Of the objects JSON.parse can return, two are kept      *)
(* apart: a plain one such as {}, and one with an own toString member      *)
(* that is not a function, such as {"toString": 0}.                        *)
(***************************************************************************)
EXTENDS Integers, Sequences, FiniteSets, TLC

\* ------------------------------------------------------------------------
\* Bounds of the model
\* ------------------------------------------------------------------------

\* Longest cell text enumerated over Alphabet.
MaxLen == 3

\* Most table rows of a page.
MaxRows == 2

\* ------------------------------------------------------------------------
\* JavaScript values
\* ------------------------------------------------------------------------

RECURSIVE Pow10(_)
Pow10(n) == IF n = 0 THEN 1 ELSE 10 * Pow10(n - 1)

RECURSIVE NormDec(_, _)
NormDec(m, d) ==
    IF d > 0 /\ m % 10 = 0 THEN NormDec(m \div 10, d - 1) ELSE <<m, d>>

Num(m, d) ==
    LET nd == NormDec(m, d) IN [t |-> "num", m |-> nd[1], d |-> nd[2], s |-> <<>>]

NaN == [t |-> "nan", m |-> 0, d |-> 0, s |-> <<>>]

Infinity(sign) == [t |-> "inf", m |-> sign, d |-> 0, s |-> <<>>]

Null == [t |-> "null", m |-> 0, d |-> 0, s |-> <<>>]

Undefined == [t |-> "undef", m |-> 0, d |-> 0, s |-> <<>>]

Str(txt) == [t |-> "str", m |-> 0, d |-> 0, s |-> txt]

Bool(b) == [t |-> "bool", m |-> IF b THEN 1 ELSE 0, d |-> 0, s |-> <<>>]

Obj == [t |-> "obj", m |-> 0, d |-> 0, s |-> <<>>]

\* JSON.parse('{"toString": 0}')
Unconvertible == [t |-> "objx", m |-> 0, d |-> 0, s |-> <<>>]

\* ToBoolean: the values JavaScript treats as true in `if (x)`, `!x`,
\* `a && b` and `a || b`.
Truthy(v) ==
    CASE v.t = "num" -> v.m # 0
      [] v.t = "nan" -> FALSE
      [] v.t = "inf" -> TRUE
      [] v.t = "null" -> FALSE
      [] v.t = "undef" -> FALSE
      [] v.t = "str" -> v.s # <<>>
      [] v.t = "bool" -> v.m = 1
      [] OTHER -> TRUE

\* `x > 0` for a number x (NaN compares false with everything).
GreaterThanZero(v) ==
    CASE v.t = "num" -> v.m > 0
      [] v.t = "inf" -> v.m > 0
      [] OTHER -> FALSE

\* `a || null`
OrNull(v) == IF Truthy(v) THEN v ELSE Null

\* ------------------------------------------------------------------------
\* Texts, String.prototype.trim and parseFloat
\* ------------------------------------------------------------------------

WhiteSpace == {" "}

Digits == {"0", "1", "2", "3", "4", "5", "6", "7", "8", "9"}

DigitVal(c) ==
    CASE c = "0" -> 0 [] c = "1" -> 1 [] c = "2" -> 2 [] c = "3" -> 3
      [] c = "4" -> 4 [] c = "5" -> 5 [] c = "6" -> 6 [] c = "7" -> 7
      [] c = "8" -> 8 [] c = "9" -> 9

RECURSIVE TrimStart(_)
TrimStart(txt) ==
    IF txt # <<>> /\ Head(txt) \in WhiteSpace THEN TrimStart(Tail(txt)) ELSE txt

RECURSIVE TrimEnd(_)
TrimEnd(txt) ==
    IF txt # <<>> /\ txt[Len(txt)] \in WhiteSpace
    THEN TrimEnd(SubSeq(txt, 1, Len(txt) - 1))
    ELSE txt

trim(txt) == TrimEnd(TrimStart(txt))

\* The longest prefix of txt made of digits.
RECURSIVE DigitRun(_)
DigitRun(txt) ==
    IF txt # <<>> /\ Head(txt) \in Digits
    THEN <<Head(txt)>> \o DigitRun(Tail(txt))
    ELSE <<>>

RECURSIVE DigitsValue(_)
DigitsValue(ds) ==
    IF ds = <<>> THEN 0
    ELSE 10 * DigitsValue(SubSeq(ds, 1, Len(ds) - 1)) + DigitVal(ds[Len(ds)])

InfinityText == <<"I", "n", "f", "i", "n", "i", "t", "y">>

StartsWith(txt, pre) ==
    Len(txt) >= Len(pre) /\ SubSeq(txt, 1, Len(pre)) = pre

Drop(txt, n) == SubSeq(txt, n + 1, Len(txt))

\* The longest prefix of txt that is a decimal literal (sign, "Infinity",
\* digits, fraction): its value (NaN when there is none) and the text left.
\* Texts of the model hold no "e"/"E" after a digit and no "0x" prefix, so the
\* exponent part and the radix prefixes of a literal never occur.
ScanDecimal(txt) ==
    LET neg == txt # <<>> /\ Head(txt) = "-"
        signed == txt # <<>> /\ Head(txt) \in {"-", "+"}
        t1 == IF signed THEN Tail(txt) ELSE txt
        sgn == IF neg THEN -1 ELSE 1
        ip == DigitRun(t1)
        t2 == Drop(t1, Len(ip))
        dot == t2 # <<>> /\ Head(t2) = "."
        fp == IF dot THEN DigitRun(Tail(t2)) ELSE <<>>
    IN  IF StartsWith(t1, InfinityText)
        THEN [val |-> Infinity(sgn), rest |-> Drop(t1, Len(InfinityText))]
        ELSE IF ip = <<>> /\ fp = <<>>
        THEN [val |-> NaN, rest |-> txt]
        ELSE [val |-> Num(sgn * DigitsValue(ip \o fp), Len(fp)),
              rest |-> Drop(t2, IF dot THEN 1 + Len(fp) ELSE 0)]

\* parseFloat: leading white space is skipped, then the longest prefix that
\* is a decimal literal is read; what follows it is ignored.
parseFloat(txt) == ScanDecimal(TrimStart(txt)).val

\* StringToNumber: the whole trimmed text must be a literal; "" is 0.
StringToNumber(txt) ==
    LET t0 == trim(txt)
        sc == ScanDecimal(t0)
    IN  IF t0 = <<>> THEN Num(0, 0)
        ELSE IF sc.rest = <<>> THEN sc.val
        ELSE NaN

\* ToPrimitive, applied by ToNumber to an object: valueOf returns the object
\* itself, toString is then called, and when the object's toString is not a
\* function a TypeError is thrown.
ToPrimitiveThrows(v) == v.t = "objx"

\* ToNumber, applied by the arithmetic operators to their operands ({} reads
\* as "[object Object]").
ToNumber(v) ==
    CASE v.t \in {"num", "nan", "inf"} -> v
      [] v.t = "str" -> StringToNumber(v.s)
      [] v.t = "bool" -> Num(v.m, 0)
      [] v.t = "null" -> Num(0, 0)
      [] OTHER -> NaN

\* ------------------------------------------------------------------------
\* Number arithmetic
\*
\* The operands of * / - are exact rationals sgn * n / dn, with n and dn
\* natural numbers of any size written as sequences of limbs in base 1000,
\* least significant first (<<>> is 0).  The code computes in IEEE doubles;
\* the model computes the exact quotient and rounds it once, in toFixed.  The
\* sign of a zero is not kept.
\* ------------------------------------------------------------------------

Base == Pow10(3)

\* The recursive operators below carry their whole state in one record st and
\* build their result in st.out, most recent limb last.

RECURSIVE BigOfNatLoop(_)
BigOfNatLoop(st) ==
    IF st.n = 0 THEN st.out
    ELSE BigOfNatLoop([n |-> st.n \div Base, out |-> Append(st.out, st.n % Base)])

BigOfNat(n) == BigOfNatLoop([n |-> n, out |-> <<>>])

\* a without its leading zero limbs.
BigNorm(a) ==
    LET used == {i \in 1..Len(a) : a[i] # 0}
    IN  IF used = {} THEN <<>>
        ELSE SubSeq(a, 1, CHOOSE i \in used : \A j \in used : j <= i)

Limb(a, i) == IF i <= Len(a) THEN a[i] ELSE 0

\* a + b: st.i is the limb to add next, st.c the carry into it.
RECURSIVE BigAddLoop(_)
BigAddLoop(st) ==
    IF st.i > Len(st.a) /\ st.i > Len(st.b)
    THEN (IF st.c = 0 THEN st.out ELSE Append(st.out, st.c))
    ELSE BigAddLoop([st EXCEPT
             !.i = @ + 1,
             !.c = (Limb(st.a, st.i) + Limb(st.b, st.i) + st.c) \div Base,
             !.out = Append(@, (Limb(st.a, st.i) + Limb(st.b, st.i) + st.c) % Base)])

BigAdd(a, b) == BigAddLoop([a |-> a, b |-> b, i |-> 1, c |-> 0, out |-> <<>>])

\* a - b for a >= b: st.c is the borrow from limb st.i.
RECURSIVE BigSubLoop(_)
BigSubLoop(st) ==
    IF st.i > Len(st.a) THEN BigNorm(st.out)
    ELSE BigSubLoop([st EXCEPT
             !.i = @ + 1,
             !.c = IF st.a[st.i] - Limb(st.b, st.i) - st.c < 0 THEN 1 ELSE 0,
             !.out = Append(@, (st.a[st.i] - Limb(st.b, st.i) - st.c + Base) % Base)])

BigSub(a, b) == BigSubLoop([a |-> a, b |-> b, i |-> 1, c |-> 0, out |-> <<>>])

\* a <= b, both normalised: the most significant limb that differs decides.
BigLeq(a, b) ==
    IF Len(a) # Len(b) THEN Len(a) < Len(b)
    ELSE LET diff == {i \in 1..Len(a) : a[i] # b[i]}
         IN  IF diff = {} THEN TRUE
             ELSE LET top == CHOOSE i \in diff : \A j \in diff : j <= i
                  IN  a[top] < b[top]

\* a * k for 0 <= k < Base: st.c is the carry into limb st.i.
RECURSIVE BigMulLimbLoop(_)
BigMulLimbLoop(st) ==
    IF st.i > Len(st.a)
    THEN (IF st.c = 0 THEN st.out ELSE Append(st.out, st.c))
    ELSE BigMulLimbLoop([st EXCEPT
             !.i = @ + 1,
             !.c = (st.a[st.i] * st.k + st.c) \div Base,
             !.out = Append(@, (st.a[st.i] * st.k + st.c) % Base)])

BigMulLimb(a, k) ==
    IF k = 0 THEN <<>>
    ELSE BigMulLimbLoop([a |-> a, k |-> k, i |-> 1, c |-> 0, out |-> <<>>])

\* a * Base^k
BigShiftLimbs(a, k) == IF a = <<>> THEN <<>> ELSE [i \in 1..k |-> 0] \o a

\* a * 10^k
BigShift(a, k) == BigShiftLimbs(BigMulLimb(a, Pow10(k % 3)), k \div 3)

\* a * b: the partial products a * b[i] * Base^(i-1) are summed into st.out.
RECURSIVE BigMulLoop(_)
BigMulLoop(st) ==
    IF st.i > Len(st.b) THEN st.out
    ELSE BigMulLoop([st EXCEPT
             !.i = @ + 1,
             !.out = BigAdd(@, BigShiftLimbs(BigMulLimb(st.a, st.b[st.i]), st.i - 1))])

BigMul(a, b) ==
    IF a = <<>> THEN <<>> ELSE BigMulLoop([a |-> a, b |-> b, i |-> 1, out |-> <<>>])

\* The greatest c in st.lo..st.hi with c * dv <= rem, given lo * dv <= rem.
RECURSIVE BigFitLoop(_)
BigFitLoop(st) ==
    IF st.lo = st.hi THEN st.lo
    ELSE IF BigLeq(BigMulLimb(st.dv, (st.lo + st.hi + 1) \div 2), st.rem)
    THEN BigFitLoop([st EXCEPT !.lo = (st.lo + st.hi + 1) \div 2])
    ELSE BigFitLoop([st EXCEPT !.hi = ((st.lo + st.hi + 1) \div 2) - 1])

BigFit(rem, dv) == BigFitLoop([rem |-> rem, dv |-> dv, lo |-> 0, hi |-> Base - 1])

\* One step of the long division: limb a[i] is brought down to the remainder,
\* the quotient limb c is found, and c * dv is taken off.
BigDivStep(st, cur, c) ==
    [st EXCEPT !.i = @ - 1,
               !.rem = BigSub(cur, BigMulLimb(st.dv, c)),
               !.out = <<c>> \o @]

\* Long division from the most significant limb down: floor(a / dv).
RECURSIVE BigDivLoop(_)
BigDivLoop(st) ==
    IF st.i = 0 THEN BigNorm(st.out)
    ELSE BigDivLoop(BigDivStep(st,
                               BigNorm(<<st.a[st.i]>> \o st.rem),
                               BigFit(BigNorm(<<st.a[st.i]>> \o st.rem), st.dv)))

BigDivFloor(a, dv) ==
    BigDivLoop([a |-> a, dv |-> dv, i |-> Len(a), rem |-> <<>>, out |-> <<>>])

\* The decimal digits of a, least significant first.
BigDigits(a) ==
    BigNorm([j \in 1..(3 * Len(a)) |->
                (a[((j - 1) \div 3) + 1] \div Pow10((j - 1) % 3)) % 10])

Real(sgn, n, dn) == [t |-> "num", sgn |-> sgn, n |-> n, dn |-> dn]

RealNaN == [t |-> "nan", sgn |-> 1, n |-> <<>>, dn |-> <<1>>]

RealInf(sgn) == [t |-> "inf", sgn |-> sgn, n |-> <<>>, dn |-> <<1>>]

\* A number value (after ToNumber) as a rational.
ToReal(v) ==
    CASE v.t = "num" ->
            Real(IF v.m < 0 THEN -1 ELSE 1,
                 BigOfNat(IF v.m < 0 THEN -v.m ELSE v.m),
                 BigShift(<<1>>, v.d))
      [] v.t = "inf" -> RealInf(v.m)
      [] OTHER -> RealNaN

\* a * b
Mul(a, b) ==
    IF a.t = "nan" \/ b.t = "nan" THEN RealNaN
    ELSE IF a.t = "inf" \/ b.t = "inf"
    THEN (IF (a.t = "num" /\ a.n = <<>>) \/ (b.t = "num" /\ b.n = <<>>)
          THEN RealNaN
          ELSE RealInf(a.sgn * b.sgn))
    ELSE Real(a.sgn * b.sgn, BigMul(a.n, b.n), BigMul(a.dn, b.dn))

\* a / b
Div(a, b) ==
    IF a.t = "nan" \/ b.t = "nan" THEN RealNaN
    ELSE IF a.t = "inf" THEN (IF b.t = "inf" THEN RealNaN ELSE RealInf(a.sgn * b.sgn))
    ELSE IF b.t = "inf" THEN Real(a.sgn * b.sgn, <<>>, <<1>>)
    ELSE IF b.n = <<>> THEN (IF a.n = <<>> THEN RealNaN ELSE RealInf(a.sgn * b.sgn))
    ELSE Real(a.sgn * b.sgn, BigMul(a.n, b.dn), BigMul(a.dn, b.n))

\* a - b
Sub(a, b) ==
    IF a.t = "nan" \/ b.t = "nan" THEN RealNaN
    ELSE IF a.t = "inf"
    THEN (IF b.t = "inf" /\ b.sgn = a.sgn THEN RealNaN ELSE RealInf(a.sgn))
    ELSE IF b.t = "inf" THEN RealInf(-b.sgn)
    ELSE LET x == BigMul(a.n, b.dn)
             y == BigMul(b.n, a.dn)
             dn == BigMul(a.dn, b.dn)
         IN  IF a.sgn # b.sgn THEN Real(a.sgn, BigAdd(x, y), dn)
             ELSE IF BigLeq(y, x) THEN Real(a.sgn, BigSub(x, y), dn)
             ELSE Real(-a.sgn, BigSub(y, x), dn)

DigitChar(k) ==
    CASE k = 0 -> "0" [] k = 1 -> "1" [] k = 2 -> "2" [] k = 3 -> "3"
      [] k = 4 -> "4" [] k = 5 -> "5" [] k = 6 -> "6" [] k = 7 -> "7"
      [] k = 8 -> "8" [] k = 9 -> "9"

\* Decimal digits, given least significant first, as a text.
DigitsText(ds) == [i \in 1..Len(ds) |-> DigitChar(ds[Len(ds) + 1 - i])]

\* Number.prototype.toFixed(k) for |x| < 10^21: the integer nearest to
\* |x| * 10^k (the larger one of two), written with at least k + 1 digits
\* and a point before the last k, after a "-" when x < 0.
toFixed(x, k) ==
    IF x.t = "nan" THEN <<"N", "a", "N">>
    ELSE IF x.t = "inf"
    THEN (IF x.sgn < 0 THEN <<"-">> ELSE <<>>) \o InfinityText
    ELSE LET twice == BigMulLimb(BigShift(x.n, k), 2)
             r == BigDigits(BigDivFloor(BigAdd(twice, x.dn), BigMulLimb(x.dn, 2)))
             pad == IF Len(r) > k THEN r ELSE r \o [i \in 1..(k + 1 - Len(r)) |-> 0]
             ds == DigitsText(pad)
             ip == SubSeq(ds, 1, Len(ds) - k)
             fp == SubSeq(ds, Len(ds) - k + 1, Len(ds))
         IN  (IF x.sgn < 0 /\ x.n # <<>> THEN <<"-">> ELSE <<>>)
             \o ip \o (IF k > 0 THEN <<".">> \o fp ELSE <<>>)

\* const TROY_OZ_PER_KG = 32.1507465686
TROY_OZ_PER_KG == Real(1, <<686, 465, 507, 321>>, BigShift(<<1>>, 10))

\* ------------------------------------------------------------------------
\* Adapters: what each does with a response whose headers have arrived
\* ------------------------------------------------------------------------

Adapters == {"sge", "comex", "fx"}

\* A settled promise, as Promise.allSettled reports it.  value is <<v>> when
\* fulfilled; reason is the message of the Error when rejected.
Fulfilled(v) == [status |-> "fulfilled", value |-> <<v>>, reason |-> ""]

Rejected(msg) == [status |-> "rejected", value |-> <<>>, reason |-> msg]

Pending == [status |-> "pending", value |-> <<>>, reason |-> ""]

\* res.ok
Ok(st) == st >= 200 /\ st <= 299

AgTD == <<"A", "g", "(", "T", "+", "D", ")">>

\* `cells.length >= 4` and `variety === 'Ag(T+D)'` for a row, the sequence of
\* the texts of its td cells.
SgeMatches(row) == Len(row) >= 4 /\ trim(row[1]) = AgTD

\* A plausible slip: `if (latest)` alone, which lets a negative price through.
SgeAcceptsTruthy(latest) == Truthy(latest)

\* `latest && latest > 0`
SgeAccepts(latest) == Truthy(latest) /\ GreaterThanZero(latest)

\* A plausible slip: the assignment made for every matching row, as the
\* single-quote endpoint does, so that a later invalid row discards the quote.
SgeEachOverwrite(result, row) ==
    IF SgeMatches(row)
    THEN LET latest == parseFloat(trim(row[2]))
         IN  IF SgeAccepts(latest)
             THEN <<[latest |-> latest,
                     high |-> parseFloat(trim(row[3])),
                     low |-> parseFloat(trim(row[4])),
                     open |-> OrNull(IF Len(row) >= 5
                                     THEN parseFloat(trim(row[5])) ELSE Null)]>>
             ELSE <<>>
    ELSE result

\* The callback of $('table tr').each; result is <<>> (null) or <<quote>>.
SgeEach(result, row) ==
    IF SgeMatches(row)
    THEN LET latest == parseFloat(trim(row[2]))
             high == parseFloat(trim(row[3]))
             low == parseFloat(trim(row[4]))
             open == IF Len(row) >= 5 THEN parseFloat(trim(row[5])) ELSE Null
         IN  IF SgeAccepts(latest)
             THEN <<[latest |-> latest, high |-> high, low |-> low,
                     open |-> OrNull(open)]>>
             ELSE result
    ELSE result

\* The each loop over the rows of the page, in document order.
RECURSIVE SgeScan(_, _)
SgeScan(result, rows) ==
    IF rows = <<>> THEN result
    ELSE SgeScan(SgeEach(result, Head(rows)), Tail(rows))

SgeNotFound == "Ag(T+D) not found or market closed"

\* The end of fetchSGE: `if (!result) throw ...; return result`.
SgeFinish(result) ==
    IF result = <<>> THEN Rejected(SgeNotFound) ELSE Fulfilled(result[1])

\* fetchSGE after `await res.text()`: html is the page's table rows.
SgeParse(html) == SgeFinish(SgeScan(<<>>, html))

\* new Date().toISOString()
NowText == Str(<<"n", "o", "w">>)

ComexNotFound == "Silver price not found in COMEX data"

JsonSyntaxError == "Unexpected token < in JSON at position 0"

\* fetchCOMEX after the status check.  body.json tells whether the body is
\* JSON text; body.root is the type of the document; body.items that of its
\* items member, body.arr the elements when it is an array.
ComexParse(body) ==
    IF ~body.json THEN Rejected(JsonSyntaxError)
    ELSE IF body.root = "null"
    THEN Rejected("Cannot read properties of null (reading 'items')")
    ELSE IF body.root # "obj" \/ body.items # "arr" \/ body.arr = <<>>
    THEN Rejected(ComexNotFound)
    ELSE LET item == body.arr[1]
         IN  IF item.t # "obj" \/ ~Truthy(item.xagPrice)
             THEN Rejected(ComexNotFound)
             ELSE Fulfilled([price |-> item.xagPrice,
                             change |-> item.chgXag,
                             changePercent |-> item.pcXag,
                             prevClose |-> item.xagClose,
                             timestamp |-> IF Truthy(body.date) THEN body.date
                                           ELSE NowText])

FxNotFound == "CNY rate not found"

\* fetchFX after the status check.  body.rates is the type of the rates
\* member, body.CNY the value of rates.CNY when rates is an object.
FxParse(body) ==
    IF ~body.json THEN Rejected(JsonSyntaxError)
    ELSE IF body.root = "null"
    THEN Rejected("Cannot read properties of null (reading 'rates')")
    ELSE IF body.root # "obj" \/ body.rates # "obj" \/ ~Truthy(body.CNY)
    THEN Rejected(FxNotFound)
    ELSE Fulfilled(body.CNY)

\* A plausible slip: a fixed message, without the status code.
HttpErrorNoCode(a, st) ==
    Rejected(CASE a = "sge" -> "SGE HTTP error"
               [] a = "comex" -> "COMEX HTTP error"
               [] a = "fx" -> "FX HTTP error")

\* The thrown `${name} HTTP ${res.status}`.
HttpError(a, st) ==
    Rejected((CASE a = "sge" -> "SGE HTTP "
                [] a = "comex" -> "COMEX HTTP "
                [] a = "fx" -> "FX HTTP ") \o ToString(st))

\* What the adapter does with the body it awaited.
ParseBody(a, body) ==
    CASE a = "sge" -> SgeParse(body)
      [] a = "comex" -> ComexParse(body)
      [] a = "fx" -> FxParse(body)

\* ------------------------------------------------------------------------
\* The handler's assembly of the composite result
\* ------------------------------------------------------------------------

\* The result object of the handler; a slot is <<>> (null) or <<object>>.
EmptyResult ==
    [timestamp |-> NowText, sge |-> <<>>, comex |-> <<>>, fx |-> <<>>,
     premium |-> <<>>, errors |-> <<>>]

\* `x.reason?.message || 'Unknown error'`
ErrMessage(o) == IF o.reason # "" THEN o.reason ELSE "Unknown error"

PushError(result, source, message) ==
    [result EXCEPT !.errors = Append(@, [source |-> source, message |-> message])]

\* // Process COMEX
ProcessComex(result, comexResult) ==
    IF comexResult.status = "fulfilled"
    THEN [result EXCEPT !.comex = <<comexResult.value[1]>>]
    ELSE PushError(result, "comex", ErrMessage(comexResult))

\* // Process FX
ProcessFx(result, fxResult) ==
    IF fxResult.status = "fulfilled"
    THEN [result EXCEPT !.fx = <<[usd_cny |-> fxResult.value[1]]>>]
    ELSE PushError(result, "fx", ErrMessage(fxResult))

\* A plausible slip: the parentheses forgotten, sge.latest / TROY_OZ_PER_KG *
\* result.fx.usd_cny.
UsdPerOzNoParens(latest, usd_cny) ==
    parseFloat(toFixed(Mul(Div(ToReal(ToNumber(latest)), TROY_OZ_PER_KG),
                           ToReal(ToNumber(usd_cny))), 4))

\* sge.latest / (TROY_OZ_PER_KG * result.fx.usd_cny), to 4 decimals and back
\* through parseFloat.
UsdPerOz(latest, usd_cny) ==
    parseFloat(toFixed(Div(ToReal(ToNumber(latest)),
                           Mul(TROY_OZ_PER_KG, ToReal(ToNumber(usd_cny)))), 4))

\* // Calculate premium if COMEX is also available
Premium(usd_per_oz, price) ==
    LET diff == Sub(ToReal(ToNumber(usd_per_oz)), ToReal(ToNumber(price)))
        premiumUsd == diff
        premiumPct == Mul(Div(diff, ToReal(ToNumber(price))), ToReal(Num(100, 0)))
    IN  [usd |-> parseFloat(toFixed(premiumUsd, 4)),
         percent |-> parseFloat(toFixed(premiumPct, 2))]

NoFxMessage == "Cannot convert without FX rate"

\* A plausible slip: the last branch forgotten, so that a quote that cannot be
\* converted leaves no trace.
ProcessSgeSilent(result, sgeResult) ==
    IF sgeResult.status = "fulfilled" /\ result.fx # <<>>
    THEN [result EXCEPT !.sge =
              <<[usd_per_oz |-> UsdPerOz(sgeResult.value[1].latest, result.fx[1].usd_cny),
                 rmb_per_kg |-> sgeResult.value[1].latest,
                 rmb_high |-> sgeResult.value[1].high,
                 rmb_low |-> sgeResult.value[1].low,
                 rmb_open |-> sgeResult.value[1].open]>>]
    ELSE IF sgeResult.status = "rejected"
    THEN PushError(result, "sge", ErrMessage(sgeResult))
    ELSE result

\* A plausible slip: two independent ifs instead of the else-if chain.
ProcessSgeTwoIfs(result, sgeResult) ==
    LET r1 == IF sgeResult.status = "rejected"
              THEN PushError(result, "sge", ErrMessage(sgeResult))
              ELSE result
    IN  IF result.fx = <<>> THEN PushError(r1, "sge", NoFxMessage) ELSE r1

\* // Process SGE + convert to USD/oz
ProcessSge(result, sgeResult) ==
    IF sgeResult.status = "fulfilled" /\ result.fx # <<>>
    THEN LET sge == sgeResult.value[1]
             quote == [usd_per_oz |-> UsdPerOz(sge.latest, result.fx[1].usd_cny),
                       rmb_per_kg |-> sge.latest,
                       rmb_high |-> sge.high,
                       rmb_low |-> sge.low,
                       rmb_open |-> sge.open]
             r1 == [result EXCEPT !.sge = <<quote>>]
         IN  IF r1.comex # <<>>
             THEN [r1 EXCEPT !.premium =
                       <<Premium(quote.usd_per_oz, r1.comex[1].price)>>]
             ELSE r1
    ELSE IF sgeResult.status = "rejected"
    THEN PushError(result, "sge", ErrMessage(sgeResult))
    ELSE IF result.fx = <<>> /\ sgeResult.status = "fulfilled"
    THEN PushError(result, "sge", NoFxMessage)
    ELSE result

\* Whether the statements of ProcessSge throw: the operands of / * - are
\* converted with ToNumber, inside no try block.
ProcessSgeThrows(result, sgeResult) ==
    /\ sgeResult.status = "fulfilled" /\ result.fx # <<>>
    /\ \/ ToPrimitiveThrows(sgeResult.value[1].latest)
       \/ ToPrimitiveThrows(result.fx[1].usd_cny)
       \/ /\ result.comex # <<>>
          /\ ToPrimitiveThrows(result.comex[1].price)

\* A plausible slip: the all-or-nothing assembly of a Promise.all with a catch.
AssembleAllOrNothing(sgeResult, comexResult, fxResult) ==
    IF \E o \in {sgeResult, comexResult, fxResult} : o.status # "fulfilled"
    THEN [ProcessSge(ProcessFx(ProcessComex(EmptyResult, comexResult), fxResult),
                     sgeResult)
             EXCEPT !.sge = <<>>, !.comex = <<>>, !.fx = <<>>, !.premium = <<>>]
    ELSE ProcessSge(ProcessFx(ProcessComex(EmptyResult, comexResult), fxResult),
                    sgeResult)

\* A plausible slip: SGE processed before COMEX, so that the premium never
\* finds the reference price.
AssembleSgeFirst(sgeResult, comexResult, fxResult) ==
    ProcessComex(ProcessSge(ProcessFx(EmptyResult, fxResult), sgeResult), comexResult)

\* A plausible slip: FX processed before COMEX.
AssembleFxFirst(sgeResult, comexResult, fxResult) ==
    ProcessSge(ProcessComex(ProcessFx(EmptyResult, fxResult), comexResult), sgeResult)

\* The statements between the await and the response, in the code's order.
Assemble(sgeResult, comexResult, fxResult) ==
    ProcessSge(ProcessFx(ProcessComex(EmptyResult, comexResult), fxResult), sgeResult)

\* Whether a statement between the await and the response throws.
AssembleThrows(sgeResult, comexResult, fxResult) ==
    ProcessSgeThrows(ProcessFx(ProcessComex(EmptyResult, comexResult), fxResult),
                     sgeResult)

\* A plausible slip: && for ||.
StatusOfBoth(result) == IF result.comex # <<>> /\ result.sge # <<>> THEN 200 ELSE 502

\* A plausible slip: the FX slot counted as data.
StatusOfAny(result) ==
    IF result.comex # <<>> \/ result.sge # <<>> \/ result.fx # <<>> THEN 200 ELSE 502

\* const status = result.comex || result.sge ? 200 : 502
StatusOf(result) == IF result.comex # <<>> \/ result.sge # <<>> THEN 200 ELSE 502

\* A plausible slip: Promise.all, whose await resumes when all are fulfilled and
\* throws at the first rejection.
AllJoin(outs) ==
    [ready |-> \A a \in Adapters : outs[a].status = "fulfilled",
     throws |-> \E a \in Adapters : outs[a].status = "rejected"]

\* await Promise.allSettled([...]): the await resumes once no promise is
\* pending, and never throws.
AllSettledJoin(outs) ==
    [ready |-> \A a \in Adapters : outs[a].status # "pending", throws |-> FALSE]

\* ------------------------------------------------------------------------
\* What the upstreams may send
\* ------------------------------------------------------------------------

\* Status codes of upstream responses.
HttpStatuses == {200, 404, 503}

CellHigh == <<"9", "9", "0", "0", ".", "0">>

CellLow == <<"9", "8", "0", "0", ".", "0">>

CellOpen == <<"9", "8", "5", "0", ".", "0">>

T9875 == <<"9", "8", "7", "5", ".", "0">>

TZero == <<"0", ".", "0">>

TDash == <<"-">>

TMinus5 == <<"-", "5">>

\* Table rows: the texts of a row's td cells.
AgRow5(latest) == <<<<" ">> \o AgTD \o <<" ">>, latest, CellHigh, CellLow, CellOpen>>

AgRow4(latest) == <<AgTD, latest, CellHigh, CellLow>>

AgRow3(latest) == <<AgTD, latest, CellHigh>>

AgRowNoOpen(latest) == <<AgTD, latest, CellHigh, CellLow, TZero>>

AuRow == <<<<"A", "u", "(", "T", "+", "D", ")">>, <<"7", "8", "0">>, CellHigh, CellLow, CellOpen>>

LowerRow(latest) == <<<<"a", "g", "(", "t", "+", "d", ")">>, latest, CellHigh, CellLow, CellOpen>>

HeaderRow == <<>>

\* Pages the SGE upstream may deliver to the handler.
SamplePages ==
    { <<>>,
      <<HeaderRow, AuRow>>,
      <<HeaderRow, AuRow, AgRow5(T9875)>>,
      <<AgRow4(T9875)>>,
      <<AgRowNoOpen(T9875)>>,
      <<AgRow3(T9875)>>,
      <<LowerRow(T9875)>>,
      <<AgRow5(TZero)>>,
      <<AgRow5(TDash)>>,
      <<AgRow5(TMinus5)>>,
      <<AgRow5(T9875), AgRow5(TZero)>> }

NotJson == [json |-> FALSE, root |-> "none"]

ComexDoc(root, items, arr, date) ==
    [json |-> TRUE, root |-> root, items |-> items, arr |-> arr, date |-> date]

ComexItem(price, other) ==
    [t |-> "obj", xagPrice |-> price, chgXag |-> other, pcXag |-> other,
     xagClose |-> other]

NullItem ==
    [t |-> "null", xagPrice |-> Undefined, chgXag |-> Undefined,
     pcXag |-> Undefined, xagClose |-> Undefined]

T435 == <<"4", "3", ".", "5">>

DateText == Str(<<"N", "o", "v", " ", "1">>)

\* Values of the xagPrice member.
ComexPrices ==
    {Undefined, Null, Num(0, 0), Num(4350, 2), Str(T435), Str(<<"x">>), Obj,
     Unconvertible}

\* Bodies the COMEX upstream may deliver.
ComexBodies ==
    { NotJson,
      ComexDoc("null", "undef", <<>>, Undefined),
      ComexDoc("obj", "undef", <<>>, DateText),
      ComexDoc("obj", "arr", <<>>, DateText),
      ComexDoc("obj", "arr", <<NullItem>>, DateText),
      ComexDoc("obj", "arr", <<ComexItem(Num(4350, 2), Undefined)>>, Undefined) }
    \cup { ComexDoc("obj", "arr", <<ComexItem(pr, Num(12, 2))>>, DateText) :
           pr \in ComexPrices }

FxDoc(root, rates, cny) ==
    [json |-> TRUE, root |-> root, rates |-> rates, CNY |-> cny]

T715 == <<"7", ".", "1", "5">>

\* Values of the rates.CNY member.
FxRates ==
    {Undefined, Null, Num(0, 0), Num(715, 2), Num(-715, 2), Str(T715),
     Str(<<"x">>), Bool(TRUE), Unconvertible}

\* Bodies the FX upstream may deliver.
FxBodies ==
    { NotJson,
      FxDoc("null", "undef", Undefined),
      FxDoc("obj", "undef", Undefined),
      FxDoc("obj", "null", Undefined) }
    \cup { FxDoc("obj", "obj", cny) : cny \in FxRates }

Bodies(a) ==
    CASE a = "sge" -> SamplePages
      [] a = "comex" -> ComexBodies
      [] a = "fx" -> FxBodies

\* ------------------------------------------------------------------------
\* State
\* ------------------------------------------------------------------------

VARIABLES
    method,      \* req.method of the request being served, "none" before it
    hpc,         \* the handler: "idle", "await" (line 92), "done", "rejected"
    apc,         \* each adapter: "idle", "fetch" (line 9), "body", "settled"
    timer,       \* each fetchWithTimeout's timer: "unset", "armed", "cleared", "fired"
    requests,    \* the number of fetch() calls each adapter has made
    status,      \* res.status of the response each adapter got, 0 before it
    body,        \* <<>> or <<the body the upstream delivered>>
    outcome,     \* each adapter's promise
    result,      \* the handler's result object
    response,    \* what was sent: the status code and "none", "end" or "json"
    scanResult,  \* fetchSGE's `result` while the each loop runs
    scanPos,     \* the number of rows the loop has visited
    scanBranch,  \* where the callback left the last row: "skip", "reject", "accept"
    scanOutcome, \* fetchSGE's promise after the loop
    spc,         \* the single-quote handler: "idle", "sge_fetch", "sge_body",
                 \* "fx_fetch", "fx_body", "done"
    shAg,        \* its agLatest, agHigh, agLow and agOpen
    shCalls,     \* the number of fetch() calls it made to each upstream
    shStatus,    \* the status of the response to each, 0 before it
    shSent       \* the responses it has sent, in order

handlerVars ==
    <<method, hpc, apc, timer, requests, status, body, outcome, result, response>>

scanVars == <<scanResult, scanPos, scanBranch, scanOutcome>>

shVars == <<spc, shAg, shCalls, shStatus, shSent>>

vars == <<method, hpc, apc, timer, requests, status, body, outcome, result,
          response, scanResult, scanPos, scanBranch, scanOutcome,
          spc, shAg, shCalls, shStatus, shSent>>

Init ==
    /\ method = "none"
    /\ hpc = "idle"
    /\ apc = [a \in Adapters |-> "idle"]
    /\ timer = [a \in Adapters |-> "unset"]
    /\ requests = [a \in Adapters |-> 0]
    /\ status = [a \in Adapters |-> 0]
    /\ body = [a \in Adapters |-> <<>>]
    /\ outcome = [a \in Adapters |-> Pending]
    /\ result = EmptyResult
    /\ response = [status |-> 0, sent |-> "none"]
    /\ scanResult = <<>>
    /\ scanPos = 0
    /\ scanBranch = "none"
    /\ scanOutcome = Pending
    /\ spc = "idle"
    /\ shAg = [latest |-> Null, high |-> Null, low |-> Null, open |-> Null]
    /\ shCalls = [sge |-> 0, fx |-> 0]
    /\ shStatus = [sge |-> 0, fx |-> 0]
    /\ shSent = <<>>

\* ------------------------------------------------------------------------
\* The aggregating handler and its three adapters
\* ------------------------------------------------------------------------

\* if (req.method === 'OPTIONS') return res.status(200).end()
RequestOptions ==
    /\ hpc = "idle"
    /\ method' = "OPTIONS"
    /\ hpc' = "done"
    /\ response' = [status |-> 200, sent |-> "end"]
    /\ UNCHANGED <<apc, timer, requests, status, body, outcome, result>>
    /\ UNCHANGED scanVars
    /\ UNCHANGED shVars

\* Any other method: the result object is created and fetchSGE(), fetchCOMEX()
\* and fetchFX() each run to their first await, inside fetchWithTimeout: the
\* timer is armed and the request is in flight.  The handler then awaits.
RequestGet ==
    /\ hpc = "idle"
    /\ method' = "GET"
    /\ hpc' = "await"
    /\ result' = EmptyResult
    /\ apc' = [a \in Adapters |-> "fetch"]
    /\ timer' = [a \in Adapters |-> "armed"]
    /\ requests' = [a \in Adapters |-> requests[a] + 1]
    /\ UNCHANGED <<status, body, outcome, response>>
    /\ UNCHANGED scanVars
    /\ UNCHANGED shVars

\* The response headers arrive: fetch resolves, the finally block clears the
\* timer, and the adapter checks res.ok, then awaits the body.
Headers(a, st) ==
    /\ apc[a] = "fetch"
    /\ timer' = [timer EXCEPT ![a] = "cleared"]
    /\ status' = [status EXCEPT ![a] = st]
    /\ IF Ok(st)
       THEN /\ apc' = [apc EXCEPT ![a] = "body"]
            /\ UNCHANGED outcome
       ELSE /\ apc' = [apc EXCEPT ![a] = "settled"]
            /\ outcome' = [outcome EXCEPT ![a] = HttpError(a, st)]
    /\ UNCHANGED <<method, hpc, requests, body, result, response>>
    /\ UNCHANGED scanVars
    /\ UNCHANGED shVars

\* A plausible slip: a failed request is sent once more.
NetworkErrorRetry(a) ==
    /\ apc[a] = "fetch"
    /\ IF requests[a] < 2
       THEN /\ requests' = [requests EXCEPT ![a] = @ + 1]
            /\ timer' = [timer EXCEPT ![a] = "armed"]
            /\ UNCHANGED <<apc, outcome>>
       ELSE /\ timer' = [timer EXCEPT ![a] = "cleared"]
            /\ apc' = [apc EXCEPT ![a] = "settled"]
            /\ outcome' = [outcome EXCEPT ![a] = Rejected("fetch failed")]
            /\ UNCHANGED requests
    /\ UNCHANGED <<method, hpc, status, body, result, response>>
    /\ UNCHANGED scanVars
    /\ UNCHANGED shVars

\* The connection fails before the headers: fetch rejects.
NetworkError(a) ==
    /\ apc[a] = "fetch"
    /\ timer' = [timer EXCEPT ![a] = "cleared"]
    /\ apc' = [apc EXCEPT ![a] = "settled"]
    /\ outcome' = [outcome EXCEPT ![a] = Rejected("fetch failed")]
    /\ UNCHANGED <<method, hpc, requests, status, body, result, response>>
    /\ UNCHANGED scanVars
    /\ UNCHANGED shVars

\* A plausible slip: one AbortController shared by the three requests, so that
\* the first timer to fire aborts every request still in flight.
TimeoutShared(a) ==
    /\ timer[a] = "armed"
    /\ timer' = [b \in Adapters |-> IF timer[b] = "armed" THEN "fired" ELSE timer[b]]
    /\ apc' = [b \in Adapters |-> IF timer[b] = "armed" THEN "settled" ELSE apc[b]]
    /\ outcome' = [b \in Adapters |->
                      IF timer[b] = "armed"
                      THEN Rejected("This operation was aborted")
                      ELSE outcome[b]]
    /\ UNCHANGED <<method, hpc, requests, status, body, result, response>>
    /\ UNCHANGED scanVars
    /\ UNCHANGED shVars

\* The timer fires: controller.abort() makes the pending fetch reject.
Timeout(a) ==
    /\ timer[a] = "armed"
    /\ timer' = [timer EXCEPT ![a] = "fired"]
    /\ apc' = [apc EXCEPT ![a] = "settled"]
    /\ outcome' = [outcome EXCEPT ![a] = Rejected("This operation was aborted")]
    /\ UNCHANGED <<method, hpc, requests, status, body, result, response>>
    /\ UNCHANGED scanVars
    /\ UNCHANGED shVars

\* The body arrives in full: res.text() / res.json() resolves and the adapter
\* runs to its end.
Body(a, b) ==
    /\ apc[a] = "body"
    /\ body' = [body EXCEPT ![a] = <<b>>]
    /\ apc' = [apc EXCEPT ![a] = "settled"]
    /\ outcome' = [outcome EXCEPT ![a] = ParseBody(a, b)]
    /\ UNCHANGED <<method, hpc, timer, requests, status, result, response>>
    /\ UNCHANGED scanVars
    /\ UNCHANGED shVars

\* The connection fails while the body is read: res.text() / res.json() rejects.
BodyError(a) ==
    /\ apc[a] = "body"
    /\ apc' = [apc EXCEPT ![a] = "settled"]
    /\ outcome' = [outcome EXCEPT ![a] = Rejected("terminated")]
    /\ UNCHANGED <<method, hpc, timer, requests, status, body, result, response>>
    /\ UNCHANGED scanVars
    /\ UNCHANGED shVars

\* The await of line 92 ends; the handler assembles the result and responds,
\* or an exception thrown on the way rejects the promise the handler returned.
Respond ==
    /\ hpc = "await"
    /\ LET join == AllSettledJoin(outcome)
       IN  /\ join.ready \/ join.throws
           /\ IF \/ join.throws
                 \/ AssembleThrows(outcome["sge"], outcome["comex"], outcome["fx"])
              THEN /\ hpc' = "rejected"
                   /\ UNCHANGED <<result, response>>
              ELSE LET assembled ==
                           Assemble(outcome["sge"], outcome["comex"], outcome["fx"])
                   IN  /\ hpc' = "done"
                       /\ result' = assembled
                       /\ response' = [status |-> StatusOf(assembled), sent |-> "json"]
    /\ UNCHANGED <<method, apc, timer, requests, status, body, outcome>>
    /\ UNCHANGED scanVars
    /\ UNCHANGED shVars

Next ==
    \/ RequestOptions
    \/ RequestGet
    \/ \E a \in Adapters : \E st \in HttpStatuses : Headers(a, st)
    \/ \E a \in Adapters : NetworkError(a)
    \/ \E a \in Adapters : Timeout(a)
    \/ \E a \in Adapters : \E b \in Bodies(a) : Body(a, b)
    \/ \E a \in Adapters : BodyError(a)
    \/ Respond

Spec == Init /\ [][Next]_vars

\* What a Respond step does to hpc: the continuation of the await of line 92
\* runs to the end of the handler.
AwaitEnds ==
    /\ hpc = "await"
    /\ LET join == AllSettledJoin(outcome) IN join.ready \/ join.throws
    /\ hpc' \in {"done", "rejected"}

\* The event loop runs a due timer callback and the continuation of an await
\* whose promise has settled; nothing makes an upstream answer.
FairSpec ==
    /\ Spec
    /\ \A a \in Adapters : WF_vars(Timeout(a))
    /\ WF_hpc(AwaitEnds)

\* ------------------------------------------------------------------------
\* fetchSGE's each loop, row by row, over every bounded cell text
\* ------------------------------------------------------------------------

Alphabet == {"0", "5", "-", ".", "x"}

RECURSIVE TextsUpTo(_)
TextsUpTo(n) ==
    IF n = 0 THEN {<<>>}
    ELSE LET shorter == TextsUpTo(n - 1)
         IN  shorter \cup {Append(txt, c) : txt \in shorter, c \in Alphabet}

\* Texts of the latest cell.
CellTexts ==
    TextsUpTo(MaxLen)
    \cup {InfinityText, <<"-">> \o InfinityText, <<" ", "5">>, <<"+", "5">>, T9875}

\* Rows the page may hold.
ScanRows ==
    {AgRow5(txt) : txt \in CellTexts}
    \cup {AgRow4(txt) : txt \in CellTexts}
    \cup {AgRow3(txt) : txt \in CellTexts}
    \cup {LowerRow(txt) : txt \in CellTexts}
    \cup {AuRow, HeaderRow}

\* What the latest cell of a row reads as: "skip" for a row the loop passes
\* over, else the sign class of parseFloat's value.
RowClass(row) ==
    IF ~SgeMatches(row) THEN "skip"
    ELSE LET v == parseFloat(trim(row[2]))
         IN  CASE v.t = "nan" -> "nan"
               [] v.t = "inf" -> (IF v.m > 0 THEN "inf" ELSE "neg")
               [] v.t = "num" /\ v.m = 0 -> "zero"
               [] v.t = "num" /\ v.m < 0 -> "neg"
               [] OTHER -> "pos"

\* The loop visits the next row of the page.
ScanRow(row) ==
    /\ scanOutcome.status = "pending"
    /\ scanPos < MaxRows
    /\ scanPos' = scanPos + 1
    /\ scanResult' = SgeEach(scanResult, row)
    /\ scanBranch' = RowClass(row)
    /\ UNCHANGED scanOutcome
    /\ UNCHANGED handlerVars
    /\ UNCHANGED shVars

\* The page has no more rows: fetchSGE throws or returns.
ScanFinish ==
    /\ scanOutcome.status = "pending"
    /\ scanOutcome' = SgeFinish(scanResult)
    /\ UNCHANGED <<scanResult, scanPos, scanBranch>>
    /\ UNCHANGED handlerVars
    /\ UNCHANGED shVars

NextSGE ==
    \/ \E row \in ScanRows : ScanRow(row)
    \/ ScanFinish

SpecSGE == Init /\ [][NextSGE]_vars

\* ------------------------------------------------------------------------
\* The single-quote endpoint (src/api/shanghai.js)
\* ------------------------------------------------------------------------

\* The callback of $('table tr').each in the single-quote handler: a matching
\* row overwrites the four variables, whatever its values.  With four cells
\* $(cells[4]).text() is "", which parseFloat reads as NaN.
ShEach(ag, row) ==
    IF Len(row) >= 4 /\ trim(row[1]) = AgTD
    THEN [latest |-> parseFloat(trim(row[2])),
          high |-> parseFloat(trim(row[3])),
          low |-> parseFloat(trim(row[4])),
          open |-> OrNull(IF Len(row) >= 5 THEN parseFloat(trim(row[5])) ELSE NaN)]
    ELSE ag

RECURSIVE ShScan(_, _)
ShScan(ag, rows) ==
    IF rows = <<>> THEN ag ELSE ShScan(ShEach(ag, Head(rows)), Tail(rows))

\* `!agLatest || agLatest === 0`
ShRejects(agLatest) ==
    ~Truthy(agLatest) \/ (agLatest.t = "num" /\ agLatest.m = 0)

ShNotFound == "Ag(T+D) price not found or market closed (0.0)"

ShFxNotFound == "CNY rate not found in exchange rate response"

\* The thrown `SGE returned status ${...}` and `Exchange rate API returned
\* status ${...}`.
ShHttpError(up, st) ==
    (IF up = "sge" THEN "SGE returned status "
     ELSE "Exchange rate API returned status ") \o ToString(st)

\* Lines 64 to 74 for the body the FX upstream delivered: the message of what
\* is thrown, or "" and the rate.
ShFxParse(b) ==
    IF ~b.json THEN [error |-> JsonSyntaxError, rate |-> Undefined]
    ELSE IF b.root = "null"
    THEN [error |-> "Cannot read properties of null (reading 'rates')",
          rate |-> Undefined]
    ELSE IF b.root # "obj" \/ b.rates = "undef"
    THEN [error |-> "Cannot read properties of undefined (reading 'CNY')",
          rate |-> Undefined]
    ELSE IF b.rates = "null"
    THEN [error |-> "Cannot read properties of null (reading 'CNY')",
          rate |-> Undefined]
    ELSE IF ~Truthy(b.CNY) THEN [error |-> ShFxNotFound, rate |-> Undefined]
    ELSE IF ToPrimitiveThrows(b.CNY)
    THEN [error |-> "Cannot convert object to primitive value", rate |-> Undefined]
    ELSE [error |-> "", rate |-> b.CNY]

\* res.status(500).json({error: error.message, timestamp, hint})
ShFailure(message) == [status |-> 500, error |-> message, price |-> <<>>]

\* res.status(200).json({usd_per_oz, rmb_per_kg, ..., usd_cny_rate, ...})
ShSuccess(ag, usdCny) ==
    [status |-> 200, error |-> "",
     price |-> <<[usd_per_oz |-> UsdPerOz(ag.latest, usdCny),
                  rmb_per_kg |-> ag.latest,
                  rmb_high |-> ag.high,
                  rmb_low |-> ag.low,
                  rmb_open |-> ag.open,
                  usd_cny_rate |-> usdCny]>>]

\* Pages the SGE upstream may deliver to the single-quote handler: the sample
\* pages and a one-row page for every bounded text of the latest cell.
ShPages == SamplePages \cup {<<AgRow5(txt)>> : txt \in CellTexts}

\* if (req.method === 'OPTIONS') return res.status(200).end()
ShOptions ==
    /\ spc = "idle"
    /\ spc' = "done"
    /\ shSent' = Append(shSent, [status |-> 200, error |-> "", price |-> <<>>])
    /\ UNCHANGED <<shAg, shCalls, shStatus>>
    /\ UNCHANGED <<handlerVars, scanVars>>

\* Any other method: the try block is entered and the SGE page is requested.
ShRequest ==
    /\ spc = "idle"
    /\ spc' = "sge_fetch"
    /\ shCalls' = [shCalls EXCEPT !.sge = @ + 1]
    /\ UNCHANGED <<shAg, shStatus, shSent>>
    /\ UNCHANGED <<handlerVars, scanVars>>

\* The headers of the SGE response arrive.
ShSgeHeaders(st) ==
    /\ spc = "sge_fetch"
    /\ shStatus' = [shStatus EXCEPT !.sge = st]
    /\ IF Ok(st)
       THEN /\ spc' = "sge_body"
            /\ UNCHANGED shSent
       ELSE /\ spc' = "done"
            /\ shSent' = Append(shSent, ShFailure(ShHttpError("sge", st)))
    /\ UNCHANGED <<shAg, shCalls>>
    /\ UNCHANGED <<handlerVars, scanVars>>

\* The request or the reading of the body fails: the connection breaks, or
\* AbortSignal.timeout fires, which stays armed while the body is read.
ShFail(message) ==
    /\ spc \in {"sge_fetch", "sge_body", "fx_fetch", "fx_body"}
    /\ spc' = "done"
    /\ shSent' = Append(shSent, ShFailure(message))
    /\ UNCHANGED <<shAg, shCalls, shStatus>>
    /\ UNCHANGED <<handlerVars, scanVars>>

\* A plausible slip: the exchange rate requested whatever the quote is.
ShSgeBodyEager(page) ==
    /\ spc = "sge_body"
    /\ shAg' = ShScan(shAg, page)
    /\ spc' = "fx_fetch"
    /\ shCalls' = [shCalls EXCEPT !.fx = @ + 1]
    /\ UNCHANGED <<shStatus, shSent>>
    /\ UNCHANGED <<handlerVars, scanVars>>

\* The page arrives: the rows are scanned, the quote is checked, and the
\* exchange rate is requested.
ShSgeBody(page) ==
    /\ spc = "sge_body"
    /\ shAg' = ShScan(shAg, page)
    /\ IF ShRejects(ShScan(shAg, page).latest)
       THEN /\ spc' = "done"
            /\ shSent' = Append(shSent, ShFailure(ShNotFound))
            /\ UNCHANGED shCalls
       ELSE /\ spc' = "fx_fetch"
            /\ shCalls' = [shCalls EXCEPT !.fx = @ + 1]
            /\ UNCHANGED shSent
    /\ UNCHANGED shStatus
    /\ UNCHANGED <<handlerVars, scanVars>>

\* The headers of the FX response arrive.
ShFxHeaders(st) ==
    /\ spc = "fx_fetch"
    /\ shStatus' = [shStatus EXCEPT !.fx = st]
    /\ IF Ok(st)
       THEN /\ spc' = "fx_body"
            /\ UNCHANGED shSent
       ELSE /\ spc' = "done"
            /\ shSent' = Append(shSent, ShFailure(ShHttpError("fx", st)))
    /\ UNCHANGED <<shAg, shCalls>>
    /\ UNCHANGED <<handlerVars, scanVars>>

\* The FX body arrives: the rate is read and the price is computed and sent,
\* or what was thrown on the way is caught and reported.
ShFxBody(b) ==
    /\ spc = "fx_body"
    /\ spc' = "done"
    /\ LET fx == ShFxParse(b)
       IN  shSent' = Append(shSent, IF fx.error # "" THEN ShFailure(fx.error)
                                    ELSE ShSuccess(shAg, fx.rate))
    /\ UNCHANGED <<shAg, shCalls, shStatus>>
    /\ UNCHANGED <<handlerVars, scanVars>>

NextShanghai ==
    \/ ShOptions
    \/ ShRequest
    \/ \E st \in HttpStatuses : ShSgeHeaders(st)
    \/ \E message \in {"fetch failed", "The operation was aborted due to timeout"} :
           ShFail(message)
    \/ \E page \in ShPages : ShSgeBody(page)
    \/ \E st \in HttpStatuses : ShFxHeaders(st)
    \/ \E b \in FxBodies : ShFxBody(b)

SpecShanghai == Init /\ [][NextShanghai]_vars

\* ------------------------------------------------------------------------
\* Properties
\* ------------------------------------------------------------------------

\* The handler has answered a request that went through the aggregation.
Done == hpc = "done" /\ method = "GET"

Ful(a) == outcome[a].status = "fulfilled"

Rej(a) == outcome[a].status = "rejected"

Present(a) == result[a] # <<>>

HasError(source, message) ==
    \E i \in 1..Len(result.errors) :
        result.errors[i] = [source |-> source, message |-> message]

ErrorCount(source) ==
    Cardinality({i \in 1..Len(result.errors) : result.errors[i].source = source})

\* C1: every adapter request is bounded by the timeout: an adapter whose
\* request is in flight eventually settles, whether the upstream stalls before
\* the headers or while the body is delivered, and so every aggregation cycle
\* eventually sends its response.
C1_TimeoutBoundsRequest ==
    /\ \A a \in Adapters : (apc[a] = "fetch") ~> (apc[a] = "settled")
    /\ (hpc = "await") ~> (hpc = "done")

\* C1, the part the code keeps: a request whose headers never arrive is
\* aborted by the timer.
C1_HeaderStallBounded ==
    \A a \in Adapters : (apc[a] = "fetch") ~> (apc[a] \in {"body", "settled"})

\* Exactly one adapter failed and the other two succeeded.
OneFails ==
    /\ Done
    /\ Cardinality({a \in Adapters : Rej(a)}) = 1
    /\ Cardinality({a \in Adapters : Ful(a)}) = 2

\* C2 as stated: when exactly one of the three adapters fails, the slots of
\* both successful adapters are non-null.
C2_IsolationAllSlots == OneFails => \A a \in Adapters : Ful(a) => Present(a)

\* C2 as amended: when exactly one of the three adapters fails, the data of a
\* successful COMEX or FX adapter is in its slot, the local quote is in the sge
\* slot when FX succeeded, and when FX is the one that failed sge is null, with
\* the 'Cannot convert without FX rate' entry, while comex is present.
C2_Isolation ==
    OneFails =>
        /\ Ful("comex") => result.comex = <<outcome["comex"].value[1]>>
        /\ Ful("fx") => result.fx = <<[usd_cny |-> outcome["fx"].value[1]]>>
        /\ Ful("sge") /\ Ful("fx") =>
               /\ Present("sge")
               /\ result.sge[1].rmb_per_kg = outcome["sge"].value[1].latest
        /\ Rej("fx") =>
               /\ ~Present("sge")
               /\ Present("comex")
               /\ HasError("sge", NoFxMessage)

C2_Witness == OneFails /\ Rej("comex") /\ Present("sge") /\ Present("fx")

\* C3: the handler leaves its await only when all three adapters have settled;
\* a settled outcome never changes, and a step that settles one adapter leaves
\* the other adapters' outcomes and positions as they were.
C3_SettleAllJoin ==
    [][ /\ (hpc = "await" /\ hpc' # "await") =>
               \A a \in Adapters : outcome[a].status # "pending"
        /\ \A a \in Adapters :
               outcome[a].status # "pending" => outcome'[a] = outcome[a]
        /\ \A a, b \in Adapters :
               (a # b /\ outcome'[a] # outcome[a]) =>
                   (outcome'[b] = outcome[b] /\ apc'[b] = apc[b]) ]_vars

\* An adapter has rejected while another one still awaits its body, and the
\* handler is still waiting.
C3_Witness == hpc = "await" /\ Rej("fx") /\ apc["sge"] = "body" /\ Ful("comex")

\* C4: sge is present iff the local and the FX adapter both succeeded;
\* otherwise errors has an sge entry: the adapter's own message when the local
\* adapter failed, 'Cannot convert without FX rate' when it succeeded without FX.
C4_LocalIffBoth ==
    Done =>
        /\ Present("sge") <=> (Ful("sge") /\ Ful("fx"))
        /\ Present("sge") =>
               /\ result.sge[1].rmb_per_kg = outcome["sge"].value[1].latest
               /\ result.sge[1].usd_per_oz.t \in {"num", "nan", "inf"}
        /\ Rej("sge") => HasError("sge", outcome["sge"].reason)
        /\ (Ful("sge") /\ ~Ful("fx")) => HasError("sge", NoFxMessage)

C4_Witness ==
    Done /\ Ful("sge") /\ Rej("fx") /\ ~Present("sge") /\ HasError("sge", NoFxMessage)

\* C5: premium is present iff both sge and comex are present.
C5_PremiumIffBoth ==
    Done => (result.premium # <<>> <=> (Present("sge") /\ Present("comex")))

C5_Witness == Done /\ result.premium # <<>> /\ Present("sge") /\ Present("comex")

\* C6: the status of a response the handler sends is 502 iff both sge and
\* comex are absent from the result, and 200 otherwise.
C6_StatusIffBothAbsent ==
    Done =>
        /\ response.status = 502 <=> (~Present("sge") /\ ~Present("comex"))
        /\ response.status # 502 => response.status = 200

C6_Witness == Done /\ response.status = 502 /\ \A a \in Adapters : Rej(a)

\* C7 as stated: the status is 200 whenever at least one of the three adapters
\* yielded data, and 502 only when none did.
C7_AnySourceSucceeds ==
    Done => (response.status = 200 <=> \E a \in Adapters : Ful(a))

\* C7 as amended: the status sent is 200 whenever a price is in the result, that is
\* when the reference adapter succeeded or the local and the FX adapter both
\* did, and 502 otherwise, also when FX alone or the local adapter alone
\* yielded data.
C7_PriceSucceeds ==
    Done =>
        /\ response.status = 200 <=> (Ful("comex") \/ (Ful("sge") /\ Ful("fx")))
        /\ response.status \in {200, 502}

C7_Witness == Done /\ response.status = 502 /\ Ful("fx") /\ Present("fx")

\* C8: errors holds exactly one entry for each source whose slot is absent and
\* none for a source whose slot is present: at most three entries, and three
\* when all three adapters fail.
C8_CompleteErrorAccount ==
    Done =>
        /\ \A a \in Adapters : ErrorCount(a) = IF Present(a) THEN 0 ELSE 1
        /\ \A i \in 1..Len(result.errors) : result.errors[i].source \in Adapters
        /\ Len(result.errors) <= 3
        /\ (\A a \in Adapters : Rej(a)) => Len(result.errors) = 3

C8_Witness ==
    Done /\ Len(result.errors) = 3 /\ Rej("sge") /\ Rej("comex") /\ Rej("fx")

\* C9: whatever the adapters did, the handler never throws or rejects, and
\* the response it sends is the composite result, in which every rejected
\* adapter has an errors entry carrying its message.
C9_NoFailureEscapes ==
    /\ hpc # "rejected"
    /\ Done =>
           /\ response.sent = "json"
           /\ \A a \in Adapters : Rej(a) => HasError(a, outcome[a].reason)

\* C9, the part the code keeps: a response that is sent is the composite
\* result with an errors entry for every rejected adapter.
C9_FailuresListed ==
    Done =>
        /\ response.sent = "json"
        /\ \A a \in Adapters : Rej(a) => HasError(a, outcome[a].reason)

\* C10: fetchSGE never succeeds with a latest price that is zero, negative or
\* not a number: it rejects with the not-found-or-closed failure or returns a
\* latest that is a positive number.
C10_LatestPositive ==
    /\ scanResult # <<>> =>
           /\ scanResult[1].latest.t \in {"num", "inf"}
           /\ scanResult[1].latest.m > 0
    /\ scanOutcome.status = "fulfilled" =>
           /\ scanOutcome.value[1].latest.t \in {"num", "inf"}
           /\ scanOutcome.value[1].latest.m > 0
    /\ scanOutcome.status = "rejected" => scanOutcome.reason = SgeNotFound
    /\ (scanPos = 1 /\ scanBranch \in {"skip", "nan", "zero", "neg"}) =>
           scanOutcome.status # "fulfilled"

\* A matching row with a zero, negative or non-numeric latest was the last one
\* visited, and fetchSGE rejected.
C10_Witness ==
    /\ scanBranch \in {"nan", "zero", "neg"}
    /\ scanOutcome.status = "rejected"
    /\ scanOutcome.reason = SgeNotFound

\* A positive finite number (no string, boolean or object, no infinity).
PositiveFinite(v) == v.t = "num" /\ v.m > 0

\* C11: whenever the FX adapter succeeded and fx is in the result, the rate is
\* a positive finite number; a CNY member that is zero, negative, non-numeric
\* or missing makes the FX adapter fail.
C11_FxRatePositive ==
    /\ Ful("fx") => PositiveFinite(outcome["fx"].value[1])
    /\ (Done /\ Present("fx")) => PositiveFinite(result.fx[1].usd_cny)
    /\ \A b \in FxBodies :
           (body["fx"] = <<b>> /\ b.json /\ b.root = "obj" /\ b.rates = "obj"
            /\ ~PositiveFinite(b.CNY)) => Rej("fx")

\* C11, the part the code keeps: a CNY member that is missing, null or zero
\* makes the FX adapter fail with 'CNY rate not found'.
C11_FalsyRateFails ==
    \A b \in FxBodies :
        (body["fx"] = <<b>> /\ b.json /\ b.root = "obj" /\ b.rates = "obj"
         /\ b.CNY \in {Undefined, Null, Num(0, 0)}) =>
            (Rej("fx") /\ outcome["fx"].reason = FxNotFound)

\* The price member the reference document carries, if it has a first item.
ComexHasNumericPrice(b) ==
    /\ b.json /\ b.root = "obj" /\ b.items = "arr" /\ b.arr # <<>>
    /\ b.arr[1].t = "obj"
    /\ b.arr[1].xagPrice.t = "num"

\* C12: fetchCOMEX succeeds iff the document has a first item whose xagPrice
\* is present and numeric; otherwise it fails, with 'Silver price not found in
\* COMEX data' when the document is JSON, and it never succeeds with a price
\* that is no number.
C12_NumericPriceOnly ==
    \A b \in ComexBodies :
        body["comex"] = <<b>> =>
            /\ Ful("comex") <=> ComexHasNumericPrice(b)
            /\ Ful("comex") => outcome["comex"].value[1].price.t = "num"
            /\ (b.json /\ b.root = "obj" /\ ~ComexHasNumericPrice(b)) =>
                   outcome["comex"].reason = ComexNotFound

\* C12, the part the code keeps: a document without items, without a first
\* item or without xagPrice fails with 'Silver price not found in COMEX data'.
C12_MissingPriceFails ==
    \A b \in ComexBodies :
        (body["comex"] = <<b>> /\ b.json /\ b.root = "obj"
         /\ (b.items # "arr" \/ b.arr = <<>> \/ b.arr[1].t # "obj"
             \/ b.arr[1].xagPrice \in {Undefined, Null})) =>
            (Rej("comex") /\ outcome["comex"].reason = ComexNotFound)

\* The message a non-success status st is reported with.
StatusMessage(a, st) ==
    (CASE a = "sge" -> "SGE" [] a = "comex" -> "COMEX" [] a = "fx" -> "FX")
    \o " HTTP " \o ToString(st)

\* C13: an adapter whose response has a non-success status fails with a
\* message carrying the status code, its body is never read, and the errors
\* entry of that source in the response carries the same message.
C13_HttpStatusFails ==
    \A a \in Adapters :
        (status[a] # 0 /\ ~(status[a] \in 200..299)) =>
            /\ Rej(a)
            /\ outcome[a].reason = StatusMessage(a, status[a])
            /\ apc[a] = "settled"
            /\ body[a] = <<>>
            /\ Done => HasError(a, StatusMessage(a, status[a]))

C13_Witness ==
    /\ Done
    /\ status["comex"] = 404
    /\ status["fx"] = 503
    /\ HasError("comex", "COMEX HTTP 404")
    /\ HasError("fx", "FX HTTP 503")

\* The sources of the entries of errors, in order.
ErrorSources == [i \in 1..Len(result.errors) |-> result.errors[i].source]

\* Whether seq lists its elements in the order rank gives them.
InOrder(seq, rank) ==
    \A i, j \in 1..Len(seq) : i < j => rank[seq[i]] < rank[seq[j]]

\* C14 as stated: in errors the fx entry comes before the reference entry and
\* both come before the local entry.
C14_FxBeforeReference ==
    Done => InOrder(ErrorSources, [fx |-> 1, comex |-> 2, sge |-> 3])

\* C14 as amended: in errors the reference (comex) entry comes before the fx
\* entry and both come before the local (sge) entry.
C14_ReferenceBeforeFx ==
    Done => InOrder(ErrorSources, [comex |-> 1, fx |-> 2, sge |-> 3])

C14_Witness == Done /\ ErrorSources = <<"comex", "fx", "sge">>

\* C15: a timer that fires rejects its own adapter's request and leaves the
\* other adapters' timers, positions and outcomes as they were; a request in
\* flight next to a fired timer still has its own timer armed.
C15_IndependentCancellation ==
    [][ /\ \A a \in Adapters :
               (timer[a] = "armed" /\ timer'[a] = "fired") =>
                   /\ outcome'[a] = Rejected("This operation was aborted")
                   /\ \A b \in Adapters \ {a} :
                          /\ timer'[b] = timer[b]
                          /\ apc'[b] = apc[b]
                          /\ outcome'[b] = outcome[b]
        /\ \A a, b \in Adapters :
               (timer'[a] = "fired" /\ apc'[b] = "fetch") =>
                   (timer'[b] = "armed" /\ outcome'[b] = Pending) ]_vars

\* One request was aborted by its timer and the other two adapters succeeded.
C15_Witness ==
    /\ Done
    /\ timer["fx"] = "fired"
    /\ outcome["fx"].reason = "This operation was aborted"
    /\ Ful("sge") /\ Ful("comex")
    /\ Present("comex")

ExampleCycle ==
    /\ Done
    /\ \A a \in Adapters : Ful(a)
    /\ outcome["sge"].value[1].latest = Num(98750, 1)
    /\ outcome["fx"].value[1] = Num(715, 2)
    /\ outcome["comex"].value[1].price = Num(4350, 2)

\* C17 as stated: in the worked example usd_per_oz is 42.9603, premium.usd is
\* -0.5397 and premium.percent is -1.24.
C17_WorkedExample ==
    ExampleCycle =>
        /\ result.sge[1].usd_per_oz = Num(429603, 4)
        /\ result.premium[1].usd = Num(-5397, 4)
        /\ result.premium[1].percent = Num(-124, 2)

\* C17 as amended: in the worked example usd_per_oz is 42.9576, premium.usd
\* (from the rounded usd_per_oz) is -0.5424 and premium.percent is -1.25.
C17_WorkedExampleExact ==
    ExampleCycle =>
        /\ result.sge[1].usd_per_oz = Num(429576, 4)
        /\ result.premium[1].usd = Num(-5424, 4)
        /\ result.premium[1].percent = Num(-125, 2)

C17_Witness == ExampleCycle /\ Present("sge") /\ result.premium # <<>>

\* The value is a number greater than zero.
PositiveNumber(v) == v.t \in {"num", "inf"} /\ v.m > 0

\* The value is zero or no number at all (NaN, or null when no row matched).
ZeroOrNoNumber(v) == v.t \in {"nan", "null"} \/ (v.t = "num" /\ v.m = 0)

\* C18: in the single-quote endpoint a parsed latest that is zero, negative
\* or not a number always ends in the error response: the handler goes on to
\* the exchange rate only with a positive latest, and a 200 payload carries a
\* positive latest.
C18_ShanghaiLatestPositive ==
    /\ spc \in {"fx_fetch", "fx_body"} => PositiveNumber(shAg.latest)
    /\ \A i \in 1..Len(shSent) :
           (shSent[i].status = 200 /\ shSent[i].price # <<>>) =>
               PositiveNumber(shSent[i].price[1].rmb_per_kg)

\* C18, the part the code keeps: with a latest that is zero or not a number,
\* or with no matching row, the handler never goes on and never answers 200.
C18_ShanghaiZeroFails ==
    /\ spc \in {"fx_fetch", "fx_body"} => ~ZeroOrNoNumber(shAg.latest)
    /\ \A i \in 1..Len(shSent) :
           (shSent[i].status = 200 /\ shSent[i].price # <<>>) =>
               ~ZeroOrNoNumber(shSent[i].price[1].rmb_per_kg)

\* C19: the single-quote handler requests each upstream at most once and the
\* exchange rate only after the SGE page came with a success status and its
\* quote was accepted; a failure of the SGE step ends the request with no FX
\* request; one response is sent, when the handler is done; a 200 payload is
\* sent only when both steps succeeded, and a failure gives the 500 response
\* with the message and no price.
C19_SequentialAllOrNothing ==
    [][ /\ shCalls'.sge <= 1 /\ shCalls'.fx <= 1
        /\ shCalls'.fx = 1 => (Ok(shStatus'.sge) /\ Truthy(shAg'.latest))
        /\ (spc \in {"sge_fetch", "sge_body"} /\ spc' = "done") =>
               (shCalls'.fx = 0 /\ shSent'[1].status = 500)
        /\ spc = "done" => (shCalls' = shCalls /\ shSent' = shSent)
        /\ Len(shSent') <= 1
        /\ spc' = "done" <=> Len(shSent') = 1
        /\ \A i \in 1..Len(shSent') :
               /\ shSent'[i].status \in {200, 500}
               /\ (shSent'[i].status = 200 /\ shSent'[i].price # <<>>) =>
                      /\ Ok(shStatus'.sge) /\ Ok(shStatus'.fx)
                      /\ Truthy(shSent'[i].price[1].rmb_per_kg)
                      /\ Truthy(shSent'[i].price[1].usd_cny_rate)
                      /\ shSent'[i].error = ""
               /\ shSent'[i].status = 500 =>
                      (shSent'[i].error # "" /\ shSent'[i].price = <<>>) ]_vars

\* The SGE step failed on its status and the handler answered 500 without
\* requesting the exchange rate.
C19_Witness ==
    /\ spc = "done"
    /\ shSent = <<ShFailure("SGE returned status 503")>>
    /\ shCalls = [sge |-> 1, fx |-> 0]

\* C20: a row that is not a matching row with a positive latest leaves the
\* quote found so far as it is, a matching row with a positive latest replaces
\* it, and at the end fetchSGE returns the quote found last, rejecting only
\* when there is none.
C20_LastValidRowWins ==
    [][ /\ scanPos' = scanPos + 1 =>
               /\ scanBranch' \in {"pos", "inf"} =>
                      /\ scanResult' # <<>>
                      /\ scanResult'[1].latest.t = (IF scanBranch' = "pos"
                                                    THEN "num" ELSE "inf")
                      /\ scanResult'[1].latest.m > 0
               /\ scanBranch' \notin {"pos", "inf"} => scanResult' = scanResult
        /\ scanOutcome' # scanOutcome =>
               scanOutcome' = (IF scanResult = <<>> THEN Rejected(SgeNotFound)
                               ELSE Fulfilled(scanResult[1])) ]_vars

\* A matching row with an invalid latest came after a valid one, and fetchSGE
\* returned the earlier quote.
C20_Witness ==
    /\ scanPos = 2
    /\ scanBranch \in {"nan", "zero", "neg"}
    /\ scanOutcome.status = "fulfilled"

====
